---- MODULE Spec2Model ----
(***************************************************************************)
(* find_chunk_boundaries of cs336_basics/pretokenization_example.py:       *)
(* the file handle (bytes and cursor), the boundary list and the scan of   *)
(* every interior boundary, one action per statement group of the loop.    *)
(* The function is called MaxCalls times in a row on the same handle.      *)
(*                                                                         *)
(* Python index i of chunk_boundaries is index i of the function           *)
(* chunk_boundaries (domain 0..desired_num_chunks); file offsets are       *)
(* 0-based, so byte k of the file is file[k + 1].                          *)
(***************************************************************************)
EXTENDS Integers, Sequences, FiniteSets

\* ---- bounds of the model -------------------------------------------------
MaxFileSize == 7        \* files of 0..MaxFileSize bytes
MaxChunks == 3          \* desired_num_chunks in 1..MaxChunks
MaxSepLen == 2          \* separators of 0..MaxSepLen bytes
MaxCalls == 2           \* consecutive calls on the same handle
WindowBytes == 3        \* bytes per window of the scan

\* The window size of the scan.  The source reads 4096 bytes per window
\* (line 55); the model scales the window down to WindowBytes so that files
\* of several windows, and separators that straddle two windows, are
\* enumerable.
mini_chunk_size == WindowBytes

Bytes == {"a", "b"}

SeqsUpTo(n) == UNION {[1..k -> Bytes] : k \in 0..n}

\* split_special_token as passed by the caller: a bytes object or a str.
Tokens == [type : {"bytes", "str"}, val : SeqsUpTo(MaxSepLen)]

VARIABLES
    file,                \* the bytes of the file behind the handle
    pos,                 \* the cursor of the file handle
    desired_num_chunks,
    split_special_token,
    pc,                  \* "idle" | "seek" | "read" | "return" | "error"
    file_size,
    chunk_boundaries,
    bi,
    initial_position,
    io,                  \* the handle methods this call has used so far
    results              \* the sequences returned so far, oldest first

vars == <<file, pos, desired_num_chunks, split_special_token, pc, file_size,
          chunk_boundaries, bi, initial_position, io, results>>

Min(a, b) == IF a < b THEN a ELSE b

\* ---- the pieces of the function -----------------------------------------

\* the assertion on the separator's type
ValidTokenNonEmpty(tok) == tok.type = "bytes" /\ tok.val # <<>>
ValidToken(tok) == tok.type = "bytes"

\* file.seek(offset, whence) on file f with the cursor at p: the new cursor
SeekKeep(f, p, offset, whence) == p
Seek(f, p, offset, whence) ==
    IF whence = "SEEK_END" THEN Len(f) + offset ELSE offset

\* file.tell(): the cursor
Tell(p) == p

\* file.read(n) at cursor p: at most n bytes, none at or past end of file
ReadOver(f, p, n) == SubSeq(f, p + 1, Min(p + n + 1, Len(f)))
Read(f, p, n) == SubSeq(f, p + 1, Min(p + n, Len(f)))

\* bytes.find: the lowest index where tok occurs in chunk, -1 if nowhere
MatchAt(chunk, tok, k) ==
    /\ k + Len(tok) <= Len(chunk)
    /\ SubSeq(chunk, k + 1, k + Len(tok)) = tok

FindLast(chunk, tok) ==
    LET hits == {k \in 0..Len(chunk) : MatchAt(chunk, tok, k)}
    IN IF hits = {} THEN -1
       ELSE CHOOSE k \in hits : \A j \in hits : j <= k
Find(chunk, tok) ==
    LET hits == {k \in 0..Len(chunk) : MatchAt(chunk, tok, k)}
    IN IF hits = {} THEN -1
       ELSE CHOOSE k \in hits : \A j \in hits : k <= j

\* the test  found_at != -1
Truthy(found_at) == found_at # 0
Found(found_at) == found_at # -1

\* the boundary assigned on a match
RelativeOffset(ip, found_at) == found_at
FoundOffset(ip, found_at) == ip + found_at

\* chunk_size and the evenly spaced initial list, last entry forced
EvenlySpaced(fs, n) == [i \in 0..n |-> i * (fs \div n)]
InitialBoundaries(fs, n) ==
    [i \in 0..n |-> IF i = n THEN fs ELSE i * (fs \div n)]

\* range(1, len(chunk_boundaries) - 1), len = n
RangeFromZero(n) == 0..(n - 2)
LoopRange(n) == 1..(n - 2)

\* break: leave the while loop, on to the next index of the for loop
Continue(b, n) == [bi |-> b, pc |-> "read"]
Break(b, n) ==
    IF b + 1 \in LoopRange(n) THEN [bi |-> b + 1, pc |-> "seek"]
    ELSE [bi |-> b, pc |-> "return"]

\* sorted(set(chunk_boundaries))
RECURSIVE SortAsc(_)
SortAsc(S) ==
    IF S = {} THEN <<>>
    ELSE LET m == CHOOSE x \in S : \A y \in S : x <= y
         IN <<m>> \o SortAsc(S \ {m})

\* sorted(chunk_boundaries) without the set(): duplicates are kept
SortedKeepDup(cb) ==
    LET RECURSIVE Ins(_, _)
        Ins(x, q) == IF q = <<>> THEN <<x>>
                     ELSE IF x <= Head(q) THEN <<x>> \o q
                     ELSE <<Head(q)>> \o Ins(x, Tail(q))
        RECURSIVE Upto(_)
        Upto(n) == IF n < 0 THEN <<>> ELSE Ins(cb[n], Upto(n - 1))
    IN Upto(desired_num_chunks)
SortedSet(cb) == SortAsc({cb[i] : i \in DOMAIN cb})

\* ---- the state machine --------------------------------------------------

Init ==
    /\ file \in SeqsUpTo(MaxFileSize)
    /\ pos \in 0..Len(file)
    /\ desired_num_chunks \in 1..MaxChunks
    /\ split_special_token \in Tokens
    /\ pc = "idle"
    /\ file_size = 0
    /\ chunk_boundaries = [i \in 0..desired_num_chunks |-> 0]
    /\ bi = 0
    /\ initial_position = 0
    /\ io = {}
    /\ results = <<>>

\* the assertion fails: the call raises before touching the handle
CallRaise ==
    /\ pc = "idle"
    /\ Len(results) < MaxCalls
    /\ ~ValidToken(split_special_token)
    /\ pc' = "error"
    /\ io' = {}
    /\ UNCHANGED <<file, pos, desired_num_chunks, split_special_token,
                   file_size, chunk_boundaries, bi, initial_position, results>>

\* lines 20-61: size of the file, initial boundaries, entry of the for loop
Call ==
    /\ pc = "idle"
    /\ Len(results) < MaxCalls
    /\ ValidToken(split_special_token)
    /\ LET atEnd == Seek(file, pos, 0, "SEEK_END")
           fs == Tell(atEnd)
           n == desired_num_chunks + 1
       IN /\ file_size' = fs
          /\ pos' = Seek(file, atEnd, 0, "SEEK_SET")
          /\ io' = {"seek", "tell"}
          /\ chunk_boundaries' = InitialBoundaries(fs, desired_num_chunks)
          /\ IF LoopRange(n) # {}
             THEN /\ bi' = CHOOSE b \in LoopRange(n) : \A c \in LoopRange(n) : b <= c
                  /\ pc' = "seek"
             ELSE /\ bi' = 0
                  /\ pc' = "return"
    /\ initial_position' = 0
    /\ UNCHANGED <<file, desired_num_chunks, split_special_token, results>>

\* lines 62-63: start the scan of boundary bi at its guess
SeekGuess ==
    /\ pc = "seek"
    /\ initial_position' = chunk_boundaries[bi]
    /\ pos' = Seek(file, pos, chunk_boundaries[bi], "SEEK_SET")
    /\ io' = io \cup {"seek"}
    /\ pc' = "read"
    /\ UNCHANGED <<file, desired_num_chunks, split_special_token, file_size,
                   chunk_boundaries, bi, results>>

\* lines 65, 75-77: the read returns no bytes
ReadEOF ==
    /\ pc = "read"
    /\ LET mini_chunk == Read(file, pos, mini_chunk_size)
           nxt == Break(bi, desired_num_chunks + 1)
       IN /\ mini_chunk = <<>>
          /\ pos' = pos + Len(mini_chunk)
          /\ chunk_boundaries' = [chunk_boundaries EXCEPT ![bi] = file_size]
          /\ bi' = nxt.bi
          /\ pc' = nxt.pc
    /\ io' = io \cup {"read"}
    /\ UNCHANGED <<file, desired_num_chunks, split_special_token, file_size,
                   initial_position, results>>

\* lines 65, 81-86: the separator is found in the window
ReadFound ==
    /\ pc = "read"
    /\ LET mini_chunk == Read(file, pos, mini_chunk_size)
           found_at == Find(mini_chunk, split_special_token.val)
           nxt == Break(bi, desired_num_chunks + 1)
       IN /\ mini_chunk # <<>>
          /\ Found(found_at)
          /\ pos' = pos + Len(mini_chunk)
          /\ chunk_boundaries' =
                [chunk_boundaries EXCEPT ![bi] = FoundOffset(initial_position, found_at)]
          /\ bi' = nxt.bi
          /\ pc' = nxt.pc
    /\ io' = io \cup {"read"}
    /\ UNCHANGED <<file, desired_num_chunks, split_special_token, file_size,
                   initial_position, results>>

\* lines 65, 81-87: not found, on to the next window
ReadMiss ==
    /\ pc = "read"
    /\ LET mini_chunk == Read(file, pos, mini_chunk_size)
           found_at == Find(mini_chunk, split_special_token.val)
       IN /\ mini_chunk # <<>>
          /\ ~Found(found_at)
          /\ pos' = pos + Len(mini_chunk)
    /\ initial_position' = initial_position + mini_chunk_size
    /\ io' = io \cup {"read"}
    /\ UNCHANGED <<file, desired_num_chunks, split_special_token, pc, file_size,
                   chunk_boundaries, bi, results>>

\* line 100
Return ==
    /\ pc = "return"
    /\ results' = Append(results, SortedSet(chunk_boundaries))
    /\ pc' = "idle"
    /\ UNCHANGED <<file, pos, desired_num_chunks, split_special_token, file_size,
                   chunk_boundaries, bi, initial_position, io>>

Next ==
    \/ CallRaise
    \/ Call
    \/ SeekGuess
    \/ ReadEOF
    \/ ReadFound
    \/ ReadMiss
    \/ Return

Spec == Init /\ [][Next]_vars

\* The function is synchronous: once called, every statement runs.
FairSpec == Spec /\ WF_vars(Next)

\* ---- vocabulary of the properties ---------------------------------------

sep == split_special_token.val

\* a bytes separator of at least one byte
ValidInput == split_special_token.type = "bytes" /\ sep # <<>>

\* the separator occurs in the file starting at offset s
IsOcc(s) == MatchAt(file, sep, s)
Occ == {s \in 0..Len(file) : IsOcc(s)}

Interior == 1..(desired_num_chunks - 1)
guess(i) == i * (Len(file) \div desired_num_chunks)

\* the adjustment loop of the latest call is over
AfterLoop == pc = "return" \/ (pc = "idle" /\ results # <<>>)

Finished == pc = "error" \/ (pc = "idle" /\ Len(results) = MaxCalls)

Least(S) == CHOOSE x \in S : \A y \in S : x <= y

\* the window of the scan from g that holds offset s, and the occurrences
\* that lie in a single window of that scan
WindowStart(g, s) == g + ((s - g) \div mini_chunk_size) * mini_chunk_size
InOneWindow(g, s) ==
    s >= g /\ s + Len(sep) <= WindowStart(g, s) + mini_chunk_size
Whole(g) == {s \in Occ : InOneWindow(g, s)}
Spans(g, s) == s >= g /\ IsOcc(s) /\ ~InOneWindow(g, s)

StrictlyAscending(r) == \A j \in 1..(Len(r) - 1) : r[j] < r[j + 1]

\* what the function returns when no interior boundary survives
Endpoints == IF Len(file) = 0 THEN <<0>> ELSE <<0, Len(file)>>

\* ---- C1 -------------------------------------------------------------------
\* C1: for a non-empty bytes separator every returned sequence is strictly
\* ascending, starts at 0, ends at the size of the file, stays within
\* [0, file size], and every byte of the file lies in exactly one chunk.
C1_BoundariesOrdered ==
    ValidInput =>
        \A k \in 1..Len(results) :
            LET r == results[k]
            IN /\ Len(r) >= 1
               /\ r[1] = 0
               /\ r[Len(r)] = Len(file)
               /\ StrictlyAscending(r)
               /\ \A j \in 1..Len(r) : 0 <= r[j] /\ r[j] <= Len(file)
               /\ \A b \in 0..(Len(file) - 1) :
                    Cardinality({j \in 1..(Len(r) - 1) :
                                    r[j] <= b /\ b < r[j + 1]}) = 1

\* two interior boundaries were adjusted to the same separator occurrence
C1_Witness ==
    /\ ValidInput
    /\ results # <<>>
    /\ desired_num_chunks >= 3
    /\ chunk_boundaries[1] = chunk_boundaries[2]
    /\ chunk_boundaries[1] \in Occ
    /\ Len(results[1]) = 3

\* ---- C2 -------------------------------------------------------------------
\* C2: after the adjustment loop every interior boundary is the start of an
\* occurrence of the separator or the size of the file, and so is every
\* interior element of a returned sequence.
C2_InteriorOnSeparator ==
    (ValidInput /\ AfterLoop) =>
        /\ \A i \in Interior :
              IsOcc(chunk_boundaries[i]) \/ chunk_boundaries[i] = Len(file)
        /\ \A k \in 1..Len(results) :
              \A j \in 2..(Len(results[k]) - 1) :
                  IsOcc(results[k][j]) \/ results[k][j] = Len(file)

\* one boundary moved forward to an occurrence, another ran to end of file
C2_Witness ==
    /\ ValidInput
    /\ AfterLoop
    /\ desired_num_chunks >= 3
    /\ chunk_boundaries[1] \in Occ
    /\ chunk_boundaries[1] > guess(1)
    /\ chunk_boundaries[2] = Len(file)

\* ---- C3 -------------------------------------------------------------------
\* every interior guess has an occurrence starting before the next guess
C3_Regions ==
    \A i \in Interior : \E s \in Occ : guess(i) <= s /\ s < guess(i + 1)

\* C3 as stated: under C3_Regions every adjusted interior boundary is the
\* smallest occurrence start at or after its guess.
C3_Original ==
    (ValidInput /\ AfterLoop /\ C3_Regions) =>
        \A i \in Interior :
            chunk_boundaries[i] = Least({s \in Occ : s >= guess(i)})

\* C3 as amended: under C3_Regions every adjusted interior boundary is the
\* smallest occurrence start at or after its guess among the occurrences
\* that lie inside a single window of the scan, the size of the file when
\* there is none; an occurrence at the guess itself that fits the first
\* window is accepted and the boundary stays at the guess.
C3_NearestInWindow ==
    (ValidInput /\ AfterLoop /\ C3_Regions) =>
        \A i \in Interior :
            /\ chunk_boundaries[i] =
                  IF Whole(guess(i)) = {} THEN Len(file)
                  ELSE Least(Whole(guess(i)))
            /\ (IsOcc(guess(i)) /\ Len(sep) <= mini_chunk_size)
                  => chunk_boundaries[i] = guess(i)

\* one boundary matched at found_at = 0, another moved forward to the
\* nearest occurrence
C3_Witness ==
    /\ ValidInput
    /\ AfterLoop
    /\ C3_Regions
    /\ desired_num_chunks >= 3
    /\ IsOcc(guess(1))
    /\ chunk_boundaries[1] = guess(1)
    /\ chunk_boundaries[2] > guess(2)
    /\ chunk_boundaries[2] \in Occ

C5_LengthBounds ==
    (ValidInput /\ Len(file) > 0) =>
        \A k \in 1..Len(results) :
            LET r == results[k]
            IN /\ Len(r) >= 2
               /\ Len(r) <= desired_num_chunks + 1
               /\ Cardinality({r[j] : j \in 1..Len(r)}) = Len(r)

\* every interior guess ran to the end of the file: one chunk is left
C5_Witness ==
    /\ ValidInput
    /\ Len(file) > 0
    /\ desired_num_chunks >= 3
    /\ results # <<>>
    /\ \A i \in Interior : chunk_boundaries[i] = Len(file)
    /\ Len(results[1]) = 2
    /\ Occ # {}

\* ---- C6 -------------------------------------------------------------------
\* C6 as stated: with desired_num_chunks = 1 the result is the two-element
\* sequence <<0, file size>> for every file.
C6_Original ==
    (desired_num_chunks = 1 /\ split_special_token.type = "bytes") =>
        \A k \in 1..Len(results) : results[k] = <<0, Len(file)>>

\* C6 as amended: with desired_num_chunks = 1 no boundary is scanned or
\* changed, and the result is <<0, file size>> for a non-empty file and the
\* one-element sequence <<0>> for an empty file.
C6_SingleChunk ==
    (desired_num_chunks = 1 /\ split_special_token.type = "bytes") =>
        /\ pc \notin {"seek", "read"}
        /\ "read" \notin io
        /\ AfterLoop =>
              /\ chunk_boundaries[0] = 0
              /\ chunk_boundaries[1] = Len(file)
        /\ \A k \in 1..Len(results) : results[k] = Endpoints

C6_Witness ==
    /\ desired_num_chunks = 1
    /\ ValidInput
    /\ Occ # {}
    /\ Len(file) > 0
    /\ results # <<>>
    /\ results[1] = <<0, Len(file)>>

\* ---- C7 -------------------------------------------------------------------
\* C7 as stated: when the separator occurs nowhere the result is
\* <<0, file size>>.
C7_Original ==
    (ValidInput /\ Occ = {}) =>
        \A k \in 1..Len(results) : results[k] = <<0, Len(file)>>

\* C7 as amended: when the separator occurs nowhere every interior boundary
\* is set to the size of the file, and the result is <<0, file size>> for a
\* non-empty file and <<0>> for an empty file.
C7_NoSeparator ==
    (ValidInput /\ Occ = {}) =>
        /\ AfterLoop => \A i \in Interior : chunk_boundaries[i] = Len(file)
        /\ \A k \in 1..Len(results) : results[k] = Endpoints

C7_Witness ==
    /\ ValidInput
    /\ Occ = {}
    /\ desired_num_chunks >= 3
    /\ Len(file) > 2 * mini_chunk_size
    /\ results # <<>>
    /\ chunk_boundaries[1] = Len(file)
    /\ chunk_boundaries[2] = Len(file)

\* ---- C8 -------------------------------------------------------------------
\* C8: every later call on the same handle returns the sequence the first
\* call returned, wherever the cursor was left.
C8_SameResultAgain ==
    \A k \in 2..Len(results) : results[k] = results[1]

\* the second call started from the cursor a scan of the first left behind
C8_Witness ==
    /\ ValidInput
    /\ Len(results) >= 2
    /\ Len(results[1]) >= 3
    /\ pos > 0
    /\ "read" \in io

\* ---- C9 -------------------------------------------------------------------
\* C9: every call with a bytes separator runs to its return: all MaxCalls
\* calls end and each has returned a sequence.
C9_Terminates ==
    <>(split_special_token.type = "bytes" =>
          (pc = "idle" /\ Len(results) = MaxCalls))

\* every call has returned; one scan ended on a match, the next on a read
\* of zero bytes after a window without a match
C9_Witness ==
    /\ ValidInput
    /\ pc = "idle"
    /\ Len(results) = MaxCalls
    /\ desired_num_chunks >= 3
    /\ chunk_boundaries[1] \in Occ
    /\ chunk_boundaries[1] > guess(1)
    /\ chunk_boundaries[2] = Len(file)
    /\ guess(2) < Len(file)

\* ---- C10 ------------------------------------------------------------------
\* C10: the scan of a guess reads consecutive windows of mini_chunk_size
\* bytes aligned on the guess; an occurrence of a separator longer than one
\* byte that spans two windows of the scan is never the adjusted boundary:
\* the boundary is a later occurrence inside one window or the size of the
\* file, unless an earlier window already held an occurrence.
C10_SpanningMissed ==
    (ValidInput /\ Len(sep) > 1) =>
        /\ pc = "read" =>
              /\ pos = Min(initial_position, Len(file))
              /\ initial_position >= guess(bi)
              /\ (initial_position - guess(bi)) % mini_chunk_size = 0
        /\ AfterLoop =>
              \A i \in Interior : \A s \in Occ :
                  Spans(guess(i), s) =>
                      /\ chunk_boundaries[i] # s
                      /\ (\A t \in Whole(guess(i)) : t > s)
                            => chunk_boundaries[i] > s
                      /\ \/ chunk_boundaries[i] = Len(file)
                         \/ chunk_boundaries[i] \in Whole(guess(i))

\* a spanning occurrence was passed over and a later one was taken
C10_Witness ==
    /\ ValidInput
    /\ Len(sep) > 1
    /\ AfterLoop
    /\ \E i \in Interior : \E s \in Occ :
          /\ Spans(guess(i), s)
          /\ chunk_boundaries[i] > s
          /\ chunk_boundaries[i] \in Occ

====
